---- MODULE Spec2Model ----
(***************************************************************************)
(* surya/model/ordering/processor.py: OrderImageProcessor.                 *)
(*                                                                         *)
(* The caller holds PIL images and, for each image, a list of boxes        *)
(* [left, top, right, bottom].  The public methods of the processor are    *)
(* the operations: process_boxes, resize_img_and_boxes, preprocess and     *)
(* process_inner.  Python lists and PIL images are objects that a method   *)
(* may change in place, so the caller's objects are the state.             *)
(***************************************************************************)
EXTENDS Integers, Sequences, FiniteSets, TLC

VARIABLES imgs, boxes, arrs, ret, prev

vars == <<imgs, boxes, arrs, ret, prev>>

-----------------------------------------------------------------------------
(* Bounds of the model. *)

\* Largest number of images, each with its box list, the caller holds.
NImg == 2

\* Longest box list the caller builds.
MaxLen == 2

\* Largest magnitude of a coordinate that is still remapped (keeps the
\* coordinates, which grow by box_size / width at every remapping, finite).
MaxCoord == 1000

\* Longest batch of arrays handed to process_inner.
MaxArrs == 2

-----------------------------------------------------------------------------
(* Configuration: load_processor and __init__. *)

box_size == 1000

token_sep_id == 257 + box_size

token_pad_id == 258 + box_size

\* settings.ORDER_MAX_BOXES, scaled so that the caller's longest list is
\* one box too long.
max_boxes == MaxLen - 1

\* settings.ORDER_IMAGE_SIZE (width = height), scaled to the model's images.
size == 2

\* The attributes the processor object carries after load_processor: those
\* of DonutImageProcessor, patch_size, and the five that load_processor sets.
Attrs == {"do_resize", "size", "resample", "do_thumbnail",
          "do_align_long_axis", "do_pad", "do_rescale", "rescale_factor",
          "do_normalize", "image_mean", "image_std", "patch_size",
          "token_sep_id", "token_pad_id", "max_boxes", "box_size"}

\* As HasAttr, were the processor to carry a reference to itself under the
\* name processor.
HasAttrOrProcessor(name) == name \in Attrs \cup {"processor"}

\* Reading self.<name> succeeds.
HasAttr(name) == name \in Attrs

-----------------------------------------------------------------------------
(* Helpers. *)

Max(a, b) == IF a >= b THEN a ELSE b

Min(a, b) == IF a <= b THEN a ELSE b

\* [x] * n
Rep(x, n) == [k \in 1..n |-> x]

\* max(len(b) for b in bs), bs non-empty
MaxCount(bs) == CHOOSE m \in {Len(bs[k]) : k \in 1..Len(bs)} :
                    \A k \in 1..Len(bs) : Len(bs[k]) <= m

\* The value of a call that raised: no output.  at: the step that raised.
Raised(op, arg, exc, at) ==
    [op |-> op, arg |-> arg, status |-> exc, at |-> at,
     pre_imgs |-> imgs, pre_boxes |-> boxes,
     out_boxes |-> <<>>, padded_boxes |-> <<>>, box_masks |-> <<>>,
     box_counts |-> <<>>, pixel_values |-> <<>>, in_arrs |-> <<>>]

\* The value of a call that returned.
Returned(op, arg, ob, pb, bm, bc, pv) ==
    [op |-> op, arg |-> arg, status |-> "ok", at |-> "none",
     pre_imgs |-> imgs, pre_boxes |-> boxes,
     out_boxes |-> ob, padded_boxes |-> pb, box_masks |-> bm,
     box_counts |-> bc, pixel_values |-> pv, in_arrs |-> <<>>]

NoCall == [op |-> "none", arg |-> 0, status |-> "none", at |-> "none",
           pre_imgs |-> <<>>, pre_boxes |-> <<>>,
           out_boxes |-> <<>>, padded_boxes |-> <<>>, box_masks |-> <<>>,
           box_counts |-> <<>>, pixel_values |-> <<>>, in_arrs |-> <<>>]

-----------------------------------------------------------------------------
(* process_boxes *)

\* As batch_max_boxes, without the place for the separator box.
batch_max_boxes_no_sep(bs) == MaxCount(bs)

\* max_boxes = max(len(b) for b in boxes) + 1
batch_max_boxes(bs) == MaxCount(bs) + 1

\* box_mask = [0] * (max_boxes - len(b)) + [1] * len(b)
box_mask(b, mb) == Rep(0, mb - Len(b)) \o Rep(1, Len(b))

\* padded_box = [[self.token_pad_id] * 4] * (max_boxes - len(b)) + b
\* (padded_b, the copy of b that got the separator box, is not used)
padded_box(b, mb) == Rep(Rep(token_pad_id, 4), mb - Len(b)) \o b

\* The three returned lists, or the ValueError of max() on an empty batch.
process_boxes(bs) ==
    IF Len(bs) = 0
    THEN [status |-> "ValueError", padded_boxes |-> <<>>, box_masks |-> <<>>,
          box_counts |-> <<>>]
    ELSE LET mb == batch_max_boxes(bs)
         IN  [status |-> "ok",
              padded_boxes |-> [k \in 1..Len(bs) |-> padded_box(bs[k], mb)],
              box_masks |-> [k \in 1..Len(bs) |-> box_mask(bs[k], mb)],
              box_counts |-> [k \in 1..Len(bs) |-> Len(bs[k])]]

\* The caller calls process_boxes on its box lists.
ProcessBoxes ==
    LET r == process_boxes(boxes)
    IN  /\ ret' = IF r.status = "ok"
                  THEN Returned("process_boxes", Len(boxes), <<>>,
                                r.padded_boxes, r.box_masks, r.box_counts,
                                <<>>)
                  ELSE Raised("process_boxes", Len(boxes), r.status,
                              "process_boxes")
        /\ prev' = NoCall
        /\ UNCHANGED <<imgs, boxes, arrs>>

-----------------------------------------------------------------------------
(* resize_img_and_boxes *)

\* round_aspect of Image.thumbnail: the integer nearest to num / den, the
\* lower one on a tie, and at least 1.
round_aspect(num, den) ==
    LET f == num \div den
    IN  Max(IF 2 * (num - f * den) > den THEN f + 1 ELSE f, 1)

\* img.thumbnail(new_size): shrinks the image object in place, keeping its
\* aspect ratio, when it does not fit in new_size; otherwise leaves it.
thumbnail(img, tw, th) ==
    IF tw >= img.w /\ th >= img.h
    THEN img
    ELSE IF tw * img.h >= th * img.w
         THEN [img EXCEPT !.w = round_aspect(th * img.w, img.h), !.h = th]
         ELSE [img EXCEPT !.h = round_aspect(tw * img.h, img.w), !.w = tw]

\* x / dim * space.  The model's image dimensions are powers of two that
\* divide box_size, for which the floating-point result is exactly this.
Scale(x, dim, space) == (x * space) \div dim

\* Lines 91-94: the four coordinates rescaled to the box space.
rescale_box(box, width, height) ==
    <<Scale(box[1], width, box_size), Scale(box[2], height, box_size),
      Scale(box[3], width, box_size), Scale(box[4], height, box_size)>>

\* Lines 96-103: the four conditional assignments.
clamp_box(box) ==
    LET b0 == IF box[1] < 0 THEN [box EXCEPT ![1] = 0] ELSE box
        b1 == IF b0[2] < 0 THEN [b0 EXCEPT ![2] = 0] ELSE b0
        b2 == IF b1[3] > box_size THEN [b1 EXCEPT ![3] = box_size] ELSE b1
        b3 == IF b2[4] > box_size THEN [b2 EXCEPT ![4] = box_size] ELSE b2
    IN  b3

\* As orig_dim, were img.size read after img.thumbnail has shrunk the image.
orig_dim_after_thumbnail(img) ==
    <<thumbnail(img, size, size).w, thumbnail(img, size, size).h>>

\* orig_dim = img.size, read before img.thumbnail.
orig_dim(img) == <<img.w, img.h>>

\* The box list after the loop of lines 89-103 (the same list object).
remap_boxes(bxs, dim) ==
    [k \in 1..Len(bxs) |-> clamp_box(rescale_box(bxs[k], dim[1], dim[2]))]

\* img: the caller's image object after the call; arr: the returned array
\* (np.asarray of the stretched copy, height x width x bands); boxes: the
\* caller's box list after the call, which is also the returned list.
resize_img_and_boxes(img, bxs) ==
    [img |-> thumbnail(img, size, size),
     arr |-> [kind |-> "ndarray", shape |-> <<size, size, img.bands>>],
     boxes |-> remap_boxes(bxs, orig_dim(img))]

Abs(x) == IF x < 0 THEN -x ELSE x

Remappable(bxs) ==
    \A k \in 1..Len(bxs) : \A c \in 1..4 : Abs(bxs[k][c]) <= MaxCoord

\* The caller calls resize_img_and_boxes on its i-th image and box list.
ResizeImgAndBoxes ==
    \E i \in 1..Len(imgs) :
        /\ Remappable(boxes[i])
        /\ LET r == resize_img_and_boxes(imgs[i], boxes[i])
           IN  /\ imgs' = [imgs EXCEPT ![i] = r.img]
               /\ boxes' = [boxes EXCEPT ![i] = r.boxes]
               /\ ret' = Returned("resize_img_and_boxes", i, r.boxes,
                                  <<>>, <<>>, <<>>, <<r.arr>>)
        /\ prev' = NoCall
        /\ UNCHANGED arrs

-----------------------------------------------------------------------------
(* process_inner *)

\* Lines 38-43: nested lists are converted as they are; arrays are
\* transposed from height x width x channel to channel x height x width.
to_chw(a, first_is_list) ==
    IF first_is_list
    THEN [kind |-> "ndarray", shape |-> a.shape]
    ELSE [kind |-> "ndarray",
          shape |-> <<a.shape[3], a.shape[1], a.shape[2]>>]

\* scalar_mean: image_mean / image_std of the checkpoint are single numbers
\* (normalize then accepts any channel count) and not per-channel lists of
\* three (normalize then raises ValueError on another channel count).
process_inner(images, scalar_mean) ==
    LET fail(exc) == [status |-> exc, np_images |-> <<>>]
    IN  IF Len(images) = 0 THEN fail("IndexError")
        ELSE IF images[1].kind \notin {"list", "ndarray"}
        THEN fail("AssertionError")
        ELSE IF /\ images[1].kind = "ndarray"
                /\ \E k \in 1..Len(images) : images[k].kind # "ndarray"
        THEN fail("AttributeError")
        ELSE LET np_images ==
                     [k \in 1..Len(images) |->
                         to_chw(images[k], images[1].kind = "list")]
             IN  IF np_images[1].shape[1] # 3 THEN fail("AssertionError")
                 ELSE IF /\ ~scalar_mean
                         /\ \E k \in 1..Len(images) :
                                np_images[k].shape[1] # 3
                 THEN fail("ValueError")
                 ELSE [status |-> "ok", np_images |-> np_images]

\* The caller calls process_inner on the arrays it holds.
ProcessInner ==
    \E scalar_mean \in BOOLEAN :
        LET r == process_inner(arrs, scalar_mean)
        IN  /\ ret' = [(IF r.status = "ok"
                        THEN Returned("process_inner", Len(arrs), <<>>, <<>>,
                                      <<>>, <<>>, r.np_images)
                        ELSE Raised("process_inner", Len(arrs), r.status,
                                    "process_inner"))
                       EXCEPT !.in_arrs = arrs]
            /\ prev' = NoCall
            /\ UNCHANGED <<imgs, boxes, arrs>>

-----------------------------------------------------------------------------
(* preprocess *)

\* The loop of lines 138-143 from index k on.  st carries the caller's
\* objects as the loop has left them, new_images, new_boxes and the
\* exception that ended the loop, if any.
RECURSIVE pre_loop(_, _, _)
pre_loop(k, n, st) ==
    IF k > n THEN st
    ELSE IF ~HasAttr("processor")   \* self.processor of line 139
    THEN [st EXCEPT !.status = "AttributeError", !.at = "box_count_check"]
    ELSE IF Len(st.boxes[k]) > max_boxes
    THEN [st EXCEPT !.status = "ValueError", !.at = "box_count_check"]
    ELSE LET r == resize_img_and_boxes(st.imgs[k], st.boxes[k])
         IN  pre_loop(k + 1, n,
                 [status |-> "ok", at |-> "none",
                  imgs |-> [st.imgs EXCEPT ![k] = r.img],
                  boxes |-> [st.boxes EXCEPT ![k] = r.boxes],
                  new_images |-> Append(st.new_images, r.arr),
                  new_boxes |-> Append(st.new_boxes, r.boxes)])

\* preprocess on the caller's images and box lists: the caller's objects
\* after the call, and what the call returned or raised.
preprocess(scalar_mean) ==
    LET st == pre_loop(1, Min(Len(imgs), Len(boxes)),
                       [status |-> "ok", at |-> "none", imgs |-> imgs,
                        boxes |-> boxes, new_images |-> <<>>,
                        new_boxes |-> <<>>])
        pi == process_inner(st.new_images, scalar_mean)
        pb == process_boxes(st.new_boxes)
        none == [padded_boxes |-> <<>>, box_masks |-> <<>>,
                 box_counts |-> <<>>, pixel_values |-> <<>>]
    IN  IF st.status # "ok"
        THEN [status |-> st.status, at |-> st.at, imgs |-> st.imgs,
              boxes |-> st.boxes, data |-> none]
        ELSE IF pi.status # "ok"
        THEN [status |-> pi.status, at |-> "process_inner", imgs |-> st.imgs,
              boxes |-> st.boxes, data |-> none]
        ELSE IF pb.status # "ok"
        THEN [status |-> pb.status, at |-> "process_boxes", imgs |-> st.imgs,
              boxes |-> st.boxes, data |-> none]
        ELSE [status |-> "ok", at |-> "none", imgs |-> st.imgs,
              boxes |-> st.boxes,
              data |-> [padded_boxes |-> pb.padded_boxes,
                        box_masks |-> pb.box_masks,
                        box_counts |-> pb.box_counts,
                        pixel_values |-> pi.np_images]]

\* The caller calls preprocess on its images and box lists.  prev keeps
\* the outcome of the call before, when that was a call of preprocess too.
Preprocess ==
    \E scalar_mean \in BOOLEAN :
        /\ \A k \in 1..Len(boxes) : Remappable(boxes[k])
        /\ LET r == preprocess(scalar_mean)
           IN  /\ imgs' = r.imgs
               /\ boxes' = r.boxes
               /\ ret' = IF r.status = "ok"
                         THEN Returned("preprocess", Len(imgs), <<>>,
                                       r.data.padded_boxes, r.data.box_masks,
                                       r.data.box_counts, r.data.pixel_values)
                         ELSE Raised("preprocess", Len(imgs), r.status, r.at)
        /\ prev' = IF ret.op = "preprocess" THEN ret ELSE NoCall
        /\ UNCHANGED arrs

-----------------------------------------------------------------------------
(* The caller's objects. *)

\* PIL images: width, height and number of bands.
ImagePool == {[w |-> 1, h |-> 1, bands |-> 3],
              [w |-> 4, h |-> 2, bands |-> 4]}

\* Boxes in the pixel coordinates of the image: one inside every image, one
\* with its left and bottom below 0 and its top and right beyond the image.
BoxPool == {<<0, 0, 1, 1>>, <<-1, 9, 9, -2>>}

BoxLists == UNION {[1..n -> BoxPool] : n \in 0..MaxLen}

\* Arrays for process_inner: nested lists, numpy arrays, and PIL images
\* (neither), of several shapes.
ArrPool == [kind : {"list", "ndarray", "PIL"},
            shape : {<<3, 2, 2>>, <<2, 2, 3>>, <<2, 2, 4>>, <<4, 2, 2>>}]

ArrLists == UNION {[1..n -> ArrPool] : n \in 0..MaxArrs}

Init ==
    /\ imgs \in UNION {[1..n -> ImagePool] : n \in 0..NImg}
    /\ boxes \in [1..Len(imgs) -> BoxLists]
    /\ arrs = <<>>
    /\ ret = NoCall
    /\ prev = NoCall

Next == ProcessBoxes \/ Preprocess

Spec == Init /\ [][Next]_vars

\* resize_img_and_boxes alone, on the caller's objects.
NextResize == ResizeImgAndBoxes

SpecResize == Init /\ [][NextResize]_vars

\* process_inner alone, on the arrays the caller holds.
InitInner ==
    /\ imgs = <<>>
    /\ boxes = <<>>
    /\ arrs \in ArrLists
    /\ ret = NoCall
    /\ prev = NoCall

NextInner == ProcessInner

SpecInner == InitInner /\ [][NextInner]_vars

-----------------------------------------------------------------------------
(* Claims about process_boxes (specification Spec). *)

ProcessBoxesReturned == ret.op = "process_boxes" /\ ret.status = "ok"

sep_box == Rep(token_sep_id, 4)

pad_box == Rep(token_pad_id, 4)

\* C1: every padded box list returned by process_boxes is (max count in the
\* batch - the image's count) pad boxes, then the image's boxes in their
\* order, then one separator box as the last element.
C1_PaddedLayout ==
    ProcessBoxesReturned =>
        \A k \in 1..Len(ret.pre_boxes) :
            LET b == ret.pre_boxes[k]
            IN  ret.padded_boxes[k] =
                    Rep(pad_box, MaxCount(ret.pre_boxes) - Len(b)) \o b
                        \o <<sep_box>>

\* C2: for every non-empty batch process_boxes returns, every padded box
\* list has length (maximum count in the batch) + 1, and every mask has the
\* length of its padded box list.
C2_EqualLength ==
    ret.op = "process_boxes" /\ Len(ret.pre_boxes) > 0 =>
        /\ ret.status = "ok"
        /\ Len(ret.padded_boxes) = Len(ret.pre_boxes)
        /\ Len(ret.box_masks) = Len(ret.pre_boxes)
        /\ \A k \in 1..Len(ret.pre_boxes) :
               /\ Len(ret.padded_boxes[k]) = MaxCount(ret.pre_boxes) + 1
               /\ Len(ret.box_masks[k]) = Len(ret.padded_boxes[k])

\* process_boxes has returned for a batch of two images with different
\* counts, the shorter list padded.
C2_Witness ==
    /\ ProcessBoxesReturned
    /\ Len(ret.pre_boxes) = 2
    /\ Len(ret.pre_boxes[1]) = 0
    /\ Len(ret.pre_boxes[2]) = 2
    /\ ret.padded_boxes[1][1] = pad_box

\* C3: every mask returned by process_boxes is (max_boxes - count) zeros
\* followed by (count + 1) ones, max_boxes being the maximum count in the
\* batch plus one: 1 at every box and at the separator, 0 at the pads.
C3_MaskLayout ==
    ProcessBoxesReturned =>
        \A k \in 1..Len(ret.pre_boxes) :
            LET count == Len(ret.pre_boxes[k])
                mb == MaxCount(ret.pre_boxes) + 1
            IN  ret.box_masks[k] = Rep(0, mb - count) \o Rep(1, count + 1)

-----------------------------------------------------------------------------
(* Claims about resize_img_and_boxes (specification SpecResize). *)

ResizeReturned == ret.op = "resize_img_and_boxes" /\ ret.status = "ok"

\* C4: after resize_img_and_boxes, all four coordinates of every box lie
\* within [0, box_size], also for boxes that lay outside the image.
C4_InBoxSpace ==
    ResizeReturned =>
        \A k \in 1..Len(ret.out_boxes) : \A c \in 1..4 :
            0 <= ret.out_boxes[k][c] /\ ret.out_boxes[k][c] <= box_size

\* C6: when preprocess or resize_img_and_boxes has returned, the caller's
\* box lists hold the coordinates, and the caller's images the dimensions,
\* that they had before the call.
C6_InputsUnchanged ==
    ret.op \in {"preprocess", "resize_img_and_boxes"} /\ ret.status = "ok" =>
        boxes = ret.pre_boxes /\ imgs = ret.pre_imgs

\* C9: the remapped box of (l, t, r, b) in an image of original size (W, H)
\* is (max(0, l/W*BW), max(0, t/H*BH), min(BW, r/W*BW), min(BH, b/H*BH)),
\* W and H taken before the image is shrunk; stated with both sides
\* multiplied by W or H.
C9_RemapFormula ==
    ResizeReturned =>
        LET W == ret.pre_imgs[ret.arg].w
            H == ret.pre_imgs[ret.arg].h
            in == ret.pre_boxes[ret.arg]
        IN  /\ Len(ret.out_boxes) = Len(in)
            /\ \A k \in 1..Len(in) :
                   /\ ret.out_boxes[k][1] * W = Max(0, in[k][1] * box_size)
                   /\ ret.out_boxes[k][2] * H = Max(0, in[k][2] * box_size)
                   /\ ret.out_boxes[k][3] * W
                          = Min(box_size * W, in[k][3] * box_size)
                   /\ ret.out_boxes[k][4] * H
                          = Min(box_size * H, in[k][4] * box_size)

\* resize_img_and_boxes has remapped, in an image that it shrank, a box
\* with left below 0, top beyond the image, right beyond the image and
\* bottom below 0: left floored, right capped, top and bottom only scaled.
C9_Witness ==
    /\ ResizeReturned
    /\ ret.pre_imgs[ret.arg].w = 4 /\ ret.pre_imgs[ret.arg].h = 2
    /\ imgs[ret.arg].w = 2 /\ imgs[ret.arg].h = 1
    /\ Len(ret.out_boxes) >= 1
    /\ ret.pre_boxes[ret.arg][1] = <<-1, 9, 9, -2>>
    /\ ret.out_boxes[1] = <<0, 4500, box_size, -1000>>

-----------------------------------------------------------------------------
(* Claims about preprocess (specification Spec). *)

TooMany(bxs) == \E k \in 1..Len(bxs) : Len(bxs[k]) > max_boxes

\* C5: preprocess on a batch with an image of more than max_boxes boxes
\* raises ValueError from the box-count check and returns nothing; on a
\* batch without one the box-count check raises nothing.
C5_BoxCountCheck ==
    ret.op = "preprocess" =>
        /\ TooMany(ret.pre_boxes) =>
               ret.status = "ValueError" /\ ret.at = "box_count_check"
        /\ ~TooMany(ret.pre_boxes) => ret.at # "box_count_check"

C10_RepeatableCalls ==
    ret.op = "preprocess" /\ prev.op = "preprocess" /\ Len(ret.pre_imgs) > 0 =>
        /\ prev.status = "ok" /\ ret.status = "ok"
        /\ ret.padded_boxes = prev.padded_boxes
        /\ ret.box_masks = prev.box_masks
        /\ ret.box_counts = prev.box_counts

-----------------------------------------------------------------------------
(* Claims about process_inner (specification SpecInner). *)

\* The batches whose arrays are all nested lists or all numpy arrays.
OneKind(as) ==
    /\ Len(as) > 0
    /\ as[1].kind \in {"list", "ndarray"}
    /\ \A k \in 1..Len(as) : as[k].kind = as[1].kind

\* The channel count of the k-th array after the conversion.
Channels(as, k) == to_chw(as[k], as[1].kind = "list").shape[1]

\* C8: process_inner on a batch in which some image, at any position, has
\* not exactly 3 channels after the conversion raises AssertionError; when
\* it returns, every returned array has exactly 3 channels.
C8_ChannelAssert ==
    ret.op = "process_inner" /\ OneKind(ret.in_arrs) =>
        /\ (\E k \in 1..Len(ret.in_arrs) : Channels(ret.in_arrs, k) # 3)
               => ret.status = "AssertionError"
        /\ ret.status = "ok" =>
               \A k \in 1..Len(ret.pixel_values) :
                   ret.pixel_values[k].shape[1] = 3

====
